---------------------------- MODULE Spec2Model ----------------------------
(***************************************************************************)
(* Chunked publish of a site onto the ledger, as done by                   *)
(* scripts/publish_big_site.py (and its copy move/blocksite/               *)
(* publish_big_site.py): create_blocksite submits the first PIECE_SIZE     *)
(* bytes, add_piece submits each following slice, one `sui client call`    *)
(* per piece.  The sui binary and the ledger behind it are the             *)
(* environment: each call draws what the tool did (could it run, its exit  *)
(* status, what it printed) from ToolOutputs.                              *)
(***************************************************************************)
EXTENDS Integers, Sequences, FiniteSets, TLC

\* ------------------------------------------------------------------ bounds
MaxLen == 4          \* longest site, in bytes
MaxPieceSize == 2    \* largest PIECE_SIZE tried
MaxChanges == 2      \* longest objectChanges list the tool prints
MaxSessionCalls == 2 \* calls of each of the publishes run side by side
MaxLines == 3        \* longest page, in lines, given to inline_at_position
MaxMessages == 3     \* messages the size probe is followed for

None == "None"

\* the byte values the sites are made of
Bytes == {0, 1}

RECURSIVE SeqsUpTo(_, _)
SeqsUpTo(S, n) ==
    IF n = 0 THEN {<<>>}
    ELSE LET shorter == SeqsUpTo(S, n - 1)
         IN  shorter \cup {Append(s, x) : s \in {t \in shorter : Len(t) = n - 1}, x \in S}

Sites == SeqsUpTo(Bytes, MaxLen)

\* ------------------------------------------------------- python primitives
Min(a, b) == IF a < b THEN a ELSE b

\* Slice with the end position taken in: s[a:b+1]
SliceInclusive(s, a, b) == SubSeq(s, a + 1, Min(b + 1, Len(s)))

\* s[a:b] for 0 <= a <= b: the elements at 0-based positions a .. b-1 that exist.
Slice(s, a, b) == SubSeq(s, a + 1, Min(b, Len(s)))

\* str.startswith
StartsWith(s, prefix) ==
    /\ Len(s) >= Len(prefix)
    /\ SubSeq(s, 1, Len(prefix)) = prefix

\* f"{contents}" of a list of ints: "[1, 2, 3]", as the tokens of that text.
RECURSIVE Items(_)
Items(l) ==
    IF l = <<>> THEN <<>>
    ELSE IF Len(l) = 1 THEN <<ToString(l[1])>>
    ELSE <<ToString(l[1]), ", ">> \o Items(Tail(l))

Format(l) == <<"[">> \o Items(l) \o <<"]">>

\* ------------------------------------------------------------- the sui tool
package_id == "0xPKG"

ObjectIds == {"0xA", "0xB"}

\* f"{package_id}::blocksite::BlockSite", as the segments between "::"
BlockSitePrefix(pkg) == <<pkg, "blocksite", "BlockSite">>

CoinType == <<"0x2", "coin", "Coin">>

\* The entries a receipt's objectChanges may hold: an entry is a JSON object,
\* here a record that has a field exactly when the JSON object has it.
Entries ==
    {[type |-> "created", objectType |-> BlockSitePrefix(package_id), objectId |-> i] :
        i \in ObjectIds}
    \cup {[type |-> "mutated", objectType |-> CoinType, objectId |-> "0xGAS"],
          [type |-> "mutated", objectType |-> CoinType],
          [type |-> "created", objectType |-> BlockSitePrefix(package_id)],
          [type |-> "published", packageId |-> package_id]}

\* What the tool may print on its standard output.
Stdouts ==
    {[kind |-> "not_json"], [kind |-> "json_array"], [kind |-> "json_object"]}
    \cup {[kind |-> "json_object", objectChanges |-> c] :
             c \in SeqsUpTo(Entries, MaxChanges)}

\* The outcome of one subprocess.run: the binary could not be started, or it
\* ran, exited with returncode and left stdout.
NoOutput == [ran |-> FALSE]

ToolOutputs ==
    {NoOutput}
    \cup {[ran |-> TRUE, returncode |-> rc, stdout |-> o] :
             rc \in {0, 1}, o \in Stdouts}

Raise(e) == [ok |-> FALSE, error |-> e]
Return(v) == [ok |-> TRUE, value |-> v]

\* json.loads(output.stdout)["objectChanges"], or the exception on the way
ObjectChanges(out) ==
    IF ~out.ran THEN Raise("FileNotFoundError")
    ELSE IF out.stdout.kind = "not_json" THEN Raise("JSONDecodeError")
    ELSE IF out.stdout.kind = "json_array" THEN Raise("TypeError")
    ELSE IF "objectChanges" \notin DOMAIN out.stdout THEN Raise("KeyError")
    ELSE Return(out.stdout.objectChanges)


\* The comprehension passing over the entries that have no objectId
RECURSIVE AllIdsSkipping(_)
AllIdsSkipping(changes) ==
    IF changes = <<>> THEN Return(<<>>)
    ELSE LET x == Head(changes)
             rest == AllIdsSkipping(Tail(changes))
         IN  IF "objectId" \notin DOMAIN x THEN rest
             ELSE Return(<<x.objectId>> \o rest.value)

\* [x["objectId"] for x in changes]
RECURSIVE AllIds(_)
AllIds(changes) ==
    IF changes = <<>> THEN Return(<<>>)
    ELSE LET x == Head(changes)
         IN  IF "objectId" \notin DOMAIN x THEN Raise("KeyError")
             ELSE LET rest == AllIds(Tail(changes))
                  IN  IF rest.ok THEN Return(<<x.objectId>> \o rest.value)
                      ELSE rest

\* The comprehension without its condition
MatchingIdsUnfiltered(changes, pkg) == AllIds(changes)

\* [x["objectId"] for x in changes if x["objectType"].startswith(prefix)]:
\* the condition is evaluated first, the element only for a matching entry;
\* a missing key raises at the first entry that lacks it.
RECURSIVE MatchingIds(_, _)
MatchingIds(changes, pkg) ==
    IF changes = <<>> THEN Return(<<>>)
    ELSE LET x == Head(changes)
         IN  IF "objectType" \notin DOMAIN x THEN Raise("KeyError")
             ELSE IF StartsWith(x.objectType, BlockSitePrefix(pkg))
             THEN IF "objectId" \notin DOMAIN x THEN Raise("KeyError")
                  ELSE LET rest == MatchingIds(Tail(changes), pkg)
                       IN  IF rest.ok THEN Return(<<x.objectId>> \o rest.value)
                           ELSE rest
             ELSE MatchingIds(Tail(changes), pkg)

\* The wrappers returning output[-1]
LastOf(ids) ==
    IF ~ids.ok THEN [ok |-> FALSE, error |-> ids.error, restored |-> FALSE]
    ELSE IF ids.value = <<>>
    THEN [ok |-> FALSE, error |-> "IndexError", restored |-> TRUE]
    ELSE [ok |-> TRUE, value |-> ids.value[Len(ids.value)], restored |-> TRUE]

\* The last two statements of both wrappers: os.chdir(old_dir); return output[0].
\* restored tells whether os.chdir(old_dir) was reached before the call ended.
First(ids) ==
    IF ~ids.ok THEN [ok |-> FALSE, error |-> ids.error, restored |-> FALSE]
    ELSE IF ids.value = <<>>
    THEN [ok |-> FALSE, error |-> "IndexError", restored |-> TRUE]
    ELSE [ok |-> TRUE, value |-> ids.value[1], restored |-> TRUE]

\* create_blocksite(package_id, contents), given what the tool did
create_blocksite(pkg, out) ==
    LET changes == ObjectChanges(out)
    IN  First(IF changes.ok THEN MatchingIds(changes.value, pkg) ELSE changes)

\* add_piece(site_id, piece, package_id), given what the tool did
add_piece(out) ==
    LET changes == ObjectChanges(out)
    IN  First(IF changes.ok THEN AllIds(changes.value) ELSE changes)

\* The command lines the two wrappers build.
CreateCommand(pkg, contents) ==
    [function |-> "create_to_sender", package |-> pkg,
     args |-> <<Format(contents), "0x6">>]

AddPieceCommand(id, piece, pkg) ==
    [function |-> "add_piece", package |-> pkg,
     args |-> <<id, piece, "0x6">>]

\* ---------------------------------------------------------------- the ledger
\* The vector<u8> the tool reads back from a "[1, 2, 3]" argument.
RECURSIVE ParseArg(_)
ParseArg(tokens) ==
    IF tokens = <<>> THEN <<>>
    ELSE IF Head(tokens) \in {"[", ", ", "]"} THEN ParseArg(Tail(tokens))
    ELSE <<CHOOSE b \in Bytes : ToString(b) = Head(tokens)>> \o ParseArg(Tail(tokens))

\* A transaction takes effect exactly when the tool ran and exited with 0.
Executed(out) == out.ran /\ out.returncode = 0

\* ------------------------------------------------------- working directory
ScriptsDir == <<"scripts">>

\* const.BLOCKSITE_CONTRACT = os.path.normpath("../move/blocksite")
BLOCKSITE_CONTRACT == <<"..", "move", "blocksite">>

\* The value of old_dir outside a wrapper, where the local does not exist.
NoDir == <<None>>

\* os.chdir(rel) from dir: the directory the relative path names
RECURSIVE Chdir(_, _)
Chdir(dir, rel) ==
    IF rel = <<>> THEN dir
    ELSE IF Head(rel) = ".."
    THEN Chdir(IF dir = <<>> THEN dir ELSE SubSeq(dir, 1, Len(dir) - 1), Tail(rel))
    ELSE Chdir(Append(dir, Head(rel)), Tail(rel))

\* -------------------------------------------------------------------- state
VARIABLES
    site,        \* the list of bytes to publish (publish_big_site's argument)
    PIECE_SIZE,  \* the slice length (15_000 and 10_000 in the two copies)
    pc,          \* where publish_big_site is (see Status)
    site_id,     \* publish_big_site's local site_id, None until assigned
    idx,         \* the offset of the next slice to submit
    output,      \* the wrapper's local output: what subprocess.run returned
    old_dir,     \* the wrapper's local old_dir
    error,       \* the exception that ended publish_big_site, None if none
    calls,       \* the commands submitted in this run, each with the index of
                 \* the piece it carries and whether it took effect
    ledger,      \* the contents of the BlockSite objects on the ledger, by id
    cwd,         \* the process working directory
    run,         \* 1 in the first run of the script, 2 once it was started again
    prev,        \* how the previous run ended
    in_flight,   \* the pieces whose tool process was started and has not ended
    sessions,    \* the publishes run side by side in one process (SpecTwo)
    setup,       \* the run of blocksites_setup's main (SpecSetup)
    inline,      \* a call of inline_at_position (SpecInline)
    probe        \* the run of test_max_object_size's main (SpecProbe)

vars == <<site, PIECE_SIZE, pc, site_id, idx, output, old_dir, error, calls,
          ledger, cwd, run, prev, in_flight, sessions, setup, inline, probe>>

\* What a single run of publish_big_site leaves alone.
others == <<sessions, setup, inline, probe>>

\* inline_at_position is not called, the size probe is not run.
NoInline == [pc |-> "NotCalled"]
NoProbe == [pc |-> "NotRun"]

\* No publish runs beside this one, and main of blocksites_setup is not run.
NoSessions == <<>>
NoSetup == [pc |-> "NotRun"]

\* NotStarted: before line 71.  Creating: inside create_blocksite, the tool
\* has returned.  Appending: in the loop, before add_piece.  Adding: inside
\* add_piece, the tool has returned.  Complete: publish_big_site returned.
\* Failed: an exception left publish_big_site.
Status == {"NotStarted", "Creating", "Appending", "Adding", "Complete", "Failed"}

\* The position in the spec's terms: the index of the next piece to submit.
cursor == idx \div PIECE_SIZE

\* The number of transactions a complete publish of the site takes.
piece_count ==
    IF Len(site) = 0 THEN 1
    ELSE (Len(site) + PIECE_SIZE - 1) \div PIECE_SIZE

\* Piece k of the site: its bytes k*PIECE_SIZE+1 .. (k+1)*PIECE_SIZE, as far
\* as the site goes.
Piece(k) == SubSeq(site, k * PIECE_SIZE + 1, Min((k + 1) * PIECE_SIZE, Len(site)))

Init ==
    /\ site \in Sites
    /\ PIECE_SIZE \in 1 .. MaxPieceSize
    /\ pc = "NotStarted"
    /\ site_id = None
    /\ idx = 0
    /\ output = NoOutput
    /\ old_dir = NoDir
    /\ error = None
    /\ calls = <<>>
    /\ ledger = <<>>
    /\ cwd = ScriptsDir
    /\ run = 1
    /\ prev = [pc |-> "NotStarted", site_id |-> None, cursor |-> 0]
    /\ in_flight = {}
    /\ sessions = NoSessions
    /\ setup = NoSetup
    /\ inline = NoInline
    /\ probe = NoProbe

\* subprocess.Popen(command) without a wait: the tool is started and left
\* running
StartedNotAwaited(procs, p) == procs \cup {p}

\* subprocess.run(command, capture_output=True) starts the tool and returns
\* when it has ended: the process started is not among those running when
\* the next statement is reached.
subprocess_run(procs, p) == (procs \cup {p}) \ {p}

\* The id of the object a create transaction makes: the one the receipt
\* reports when the wrapper reads one, else any id not yet on the ledger.
NewObjectIds(res) ==
    {i \in ObjectIds \ DOMAIN ledger : res.ok => i = res.value}

\* for idx in range(PIECE_SIZE, len(site), PIECE_SIZE): is there a next idx?
\* The loop with the stop value taken in: range(PIECE_SIZE, len(site) + 1, PIECE_SIZE)
LoopContinuesInclusive(next, len) == next <= len

\* The loop testing after its body: the first slice after the create call is
\* submitted whatever the length
LoopContinuesDoWhile(next, len) == next < len \/ next = PIECE_SIZE

LoopContinues(next, len) == next < len

\* The loop starting at the first slice again: range(0, len(site), PIECE_SIZE)
LoopStartZero(size) == 0

\* range(PIECE_SIZE, len(site), PIECE_SIZE): the first idx of the loop
LoopStart(size) == size

\* The loop moving on by one byte: range(PIECE_SIZE, len(site))
RangeStepOne(size) == 1

\* range(PIECE_SIZE, len(site), PIECE_SIZE): the distance between two idx
RangeStep(size) == size

\* The caller taking add_piece's value as the new site_id
AfterAddPieceRebinds(current, returned) == returned

\* publish_big_site line 75: the value add_piece returns is dropped, site_id stays
AfterAddPiece(current, returned) == current

\* Locals that would survive from the call before
KeptLocals == [site_id |-> site_id, idx |-> idx]

\* The locals of publish_big_site when it is entered: nothing is carried
\* over from an earlier call.
FreshLocals == [site_id |-> None, idx |-> 0]

\* A publish that goes straight to the loop when a target was bound before
EntrySkippingCreate(bound) == IF bound = None THEN "NotStarted" ELSE "Appending"

\* publish_big_site is entered at its first statements, whose call is the
\* create call of line 71, whatever an earlier call had bound.
Entry(bound) == "NotStarted"

\* create_blocksite lines 10-29, called from publish_big_site line 71 with
\* site[:PIECE_SIZE]: chdir, build the command, run the tool.
CallCreate ==
    /\ pc = "NotStarted"
    /\ \E out \in ToolOutputs :
         LET cmd == CreateCommand(package_id, Slice(site, 0, PIECE_SIZE))
         IN  /\ output' = out
             /\ calls' = Append(calls, [cmd |-> cmd, piece |-> cursor,
                                      executed |-> Executed(out)])
             /\ IF Executed(out)
                THEN \E new \in NewObjectIds(create_blocksite(package_id, out)) :
                        ledger' = ledger @@ (new :> ParseArg(cmd.args[1]))
                ELSE ledger' = ledger
    /\ old_dir' = cwd
    /\ cwd' = Chdir(cwd, BLOCKSITE_CONTRACT)
    /\ in_flight' = subprocess_run(in_flight, cursor)
    /\ pc' = "Creating"
    /\ UNCHANGED <<site, PIECE_SIZE, site_id, idx, error, run, prev, others>>

\* create_blocksite lines 30-37 and the assignment of line 71
ReturnCreate ==
    /\ pc = "Creating"
    /\ LET res == create_blocksite(package_id, output)
       IN  /\ cwd' = IF res.restored THEN old_dir ELSE cwd
           /\ IF res.ok
              THEN /\ site_id' = res.value
                   /\ idx' = LoopStart(PIECE_SIZE)
                   /\ pc' = IF LoopContinues(LoopStart(PIECE_SIZE), Len(site))
                            THEN "Appending" ELSE "Complete"
                   /\ error' = None
              ELSE /\ pc' = "Failed"
                   /\ error' = res.error
                   /\ UNCHANGED <<site_id, idx>>
    /\ output' = NoOutput
    /\ old_dir' = NoDir
    /\ UNCHANGED <<site, PIECE_SIZE, calls, ledger, run, prev, in_flight, others>>

\* add_piece lines 41-61, called from publish_big_site line 75 with
\* f"{site[idx:idx + PIECE_SIZE]}"
CallAddPiece ==
    /\ pc = "Appending"
    /\ \E out \in ToolOutputs :
         LET cmd == AddPieceCommand(site_id, Format(Slice(site, idx, idx + PIECE_SIZE)),
                                    package_id)
         IN  /\ Executed(out) => site_id \in DOMAIN ledger
             /\ output' = out
             /\ calls' = Append(calls, [cmd |-> cmd, piece |-> cursor,
                                      executed |-> Executed(out)])
             /\ ledger' = IF Executed(out)
                          THEN [ledger EXCEPT ![site_id] = @ \o ParseArg(cmd.args[2])]
                          ELSE ledger
    /\ old_dir' = cwd
    /\ cwd' = Chdir(cwd, BLOCKSITE_CONTRACT)
    /\ in_flight' = subprocess_run(in_flight, cursor)
    /\ pc' = "Adding"
    /\ UNCHANGED <<site, PIECE_SIZE, site_id, idx, error, run, prev, others>>

\* add_piece lines 62-65 and the loop step of lines 72-75: the value
\* add_piece returns is dropped by the caller
ReturnAddPiece ==
    /\ pc = "Adding"
    /\ LET res == add_piece(output)
       IN  /\ cwd' = IF res.restored THEN old_dir ELSE cwd
           /\ IF res.ok
              THEN /\ idx' = idx + RangeStep(PIECE_SIZE)
                   /\ site_id' = AfterAddPiece(site_id, res.value)
                   /\ pc' = IF LoopContinues(idx + RangeStep(PIECE_SIZE), Len(site))
                            THEN "Appending" ELSE "Complete"
                   /\ error' = None
              ELSE /\ pc' = "Failed"
                   /\ error' = res.error
                   /\ UNCHANGED <<site_id, idx>>
    /\ output' = NoOutput
    /\ old_dir' = NoDir
    /\ UNCHANGED <<site, PIECE_SIZE, calls, ledger, run, prev, in_flight, others>>

\* The script is started again for the same site: nothing of the previous
\* process is kept (publish_html reads the file and calls publish_big_site).
Rerun ==
    /\ pc \in {"Failed", "Complete"}
    /\ run = 1
    /\ run' = run + 1
    /\ prev' = [pc |-> pc, site_id |-> site_id, cursor |-> cursor]
    /\ pc' = Entry(site_id)
    /\ site_id' = FreshLocals.site_id
    /\ idx' = FreshLocals.idx
    /\ output' = NoOutput
    /\ old_dir' = NoDir
    /\ error' = None
    /\ calls' = <<>>
    /\ cwd' = ScriptsDir
    /\ in_flight' = {}
    /\ UNCHANGED <<site, PIECE_SIZE, ledger, others>>

\* One run of publish_big_site, for every site and piece size.
Next == CallCreate \/ ReturnCreate \/ CallAddPiece \/ ReturnAddPiece

Spec == Init /\ [][Next]_vars

\* The script run, and run once more after it ended (Failed or Complete),
\* for the site of the greatest length with alternating bytes.
InitRerun == Init /\ site = [i \in 1 .. MaxLen |-> i % 2]

NextRerun == CallCreate \/ ReturnCreate \/ CallAddPiece \/ ReturnAddPiece \/ Rerun

SpecRerun == InitRerun /\ [][NextRerun]_vars

\* The variables of the single run of publish_big_site, when that run is
\* not what is followed.
AtRest ==
    /\ site = <<>>
    /\ PIECE_SIZE = MaxPieceSize
    /\ pc = "NotStarted"
    /\ site_id = None
    /\ idx = 0
    /\ output = NoOutput
    /\ old_dir = NoDir
    /\ error = None
    /\ calls = <<>>
    /\ ledger = <<>>
    /\ run = 1
    /\ prev = [pc |-> "NotStarted", site_id |-> None, cursor |-> 0]
    /\ in_flight = {}

\* ------------------------------------------- two publishes in one process
\* The directories of the repository the scripts move between.
RepoDirs == {<<>>, ScriptsDir, <<"move">>, Chdir(ScriptsDir, BLOCKSITE_CONTRACT)}

\* os.chdir(path) raises FileNotFoundError when the directory does not exist.
ChdirRaises(dir, rel) == Chdir(dir, rel) \notin RepoDirs

\* What is not the working directory and not the sessions.
publishVars == <<site, PIECE_SIZE, pc, site_id, idx, output, old_dir, error,
                 calls, ledger, run, prev, in_flight, setup, inline, probe>>

Sessions == {1, 2}

\* A session is Idle between two calls, Entered after the wrapper's chdir,
\* Ran when the tool has returned, Done after its last call, Stopped when
\* an exception left it.  n counts the calls that ended; the first call is
\* create_blocksite, the later ones add_piece.
InitTwo ==
    /\ AtRest
    /\ cwd = ScriptsDir
    /\ setup = NoSetup
    /\ inline = NoInline
    /\ probe = NoProbe
    /\ sessions = [s \in Sessions |->
                     [pc |-> "Idle", n |-> 0, old_dir |-> NoDir, ran_in |-> NoDir,
                      error |-> None]]

\* Lines 10-11 and 41-42 of a wrapper: old_dir = os.getcwd();
\* os.chdir(BLOCKSITE_CONTRACT), which raises when the path, taken from
\* the working directory of the moment, names no directory.
SessionEnter(s) ==
    /\ sessions[s].pc = "Idle"
    /\ IF ChdirRaises(cwd, BLOCKSITE_CONTRACT)
       THEN /\ sessions' = [sessions EXCEPT ![s].pc = "Stopped",
                                             ![s].old_dir = cwd,
                                             ![s].error = "FileNotFoundError"]
            /\ cwd' = cwd
       ELSE /\ sessions' = [sessions EXCEPT ![s].pc = "Entered", ![s].old_dir = cwd]
            /\ cwd' = Chdir(cwd, BLOCKSITE_CONTRACT)
    /\ UNCHANGED publishVars

\* Lines 29 and 61: the tool runs in the working directory of the moment.
SessionRun(s) ==
    /\ sessions[s].pc = "Entered"
    /\ sessions' = [sessions EXCEPT ![s].pc = "Ran", ![s].ran_in = cwd]
    /\ UNCHANGED <<cwd, publishVars>>

\* Lines 30-37 and 62-65: the output is parsed and, unless parsing raised,
\* the working directory is set to old_dir.
SessionReturn(s) ==
    /\ sessions[s].pc = "Ran"
    /\ \E out \in ToolOutputs :
         LET res == IF sessions[s].n = 0 THEN create_blocksite(package_id, out)
                    ELSE add_piece(out)
         IN  /\ cwd' = IF res.restored THEN sessions[s].old_dir ELSE cwd
             /\ sessions' =
                  [sessions EXCEPT
                     ![s].n = @ + 1,
                     ![s].old_dir = NoDir,
                     ![s].error = IF res.ok THEN None ELSE res.error,
                     ![s].pc = IF ~res.ok THEN "Stopped"
                               ELSE IF sessions[s].n + 1 = MaxSessionCalls THEN "Done"
                               ELSE "Idle"]
    /\ UNCHANGED publishVars

NextTwo == \E s \in Sessions : SessionEnter(s) \/ SessionRun(s) \/ SessionReturn(s)

SpecTwo == InitTwo /\ [][NextTwo]_vars

\* ------------------------------------------------ blocksites_setup: main
\* The entries a `sui client publish` receipt may hold.
PublishEntries ==
    {[type |-> "published", packageId |-> i] : i \in {"0xPKG", "0xPKG2"}}
    \cup {[type |-> "created", objectType |-> <<"0x2", "package", "UpgradeCap">>,
           objectId |-> "0xCAP"],
          [type |-> "mutated", objectType |-> CoinType, objectId |-> "0xGAS"]}

PublishStdouts ==
    {[kind |-> "not_json"], [kind |-> "json_array"], [kind |-> "json_object"]}
    \cup {[kind |-> "json_object", objectChanges |-> c] :
             c \in SeqsUpTo(PublishEntries, MaxChanges)}

PublishOutputs ==
    {NoOutput}
    \cup {[ran |-> TRUE, returncode |-> rc, stdout |-> o] :
             rc \in {0, 1}, o \in PublishStdouts}

\* The comprehension without its condition: [x["packageId"] for x in changes]
RECURSIVE AllPackageIds(_)
AllPackageIds(changes) ==
    IF changes = <<>> THEN Return(<<>>)
    ELSE LET x == Head(changes)
         IN  IF "packageId" \notin DOMAIN x THEN Raise("KeyError")
             ELSE LET rest == AllPackageIds(Tail(changes))
                  IN  IF rest.ok THEN Return(<<x.packageId>> \o rest.value)
                      ELSE rest

\* [x["packageId"] for x in result["objectChanges"] if x["type"] == "published"]
RECURSIVE PublishedIds(_)
PublishedIds(changes) ==
    IF changes = <<>> THEN Return(<<>>)
    ELSE LET x == Head(changes)
         IN  IF "type" \notin DOMAIN x THEN Raise("KeyError")
             ELSE IF x.type = "published"
             THEN IF "packageId" \notin DOMAIN x THEN Raise("KeyError")
                  ELSE LET rest == PublishedIds(Tail(changes))
                       IN  IF rest.ok THEN Return(<<x.packageId>> \o rest.value)
                           ELSE rest
             ELSE PublishedIds(Tail(changes))

\* publish_package(path), given what the tool did: json.loads, the
\* comprehension, os.chdir(cur_dir), package[0]
publish_package(out) ==
    LET changes == ObjectChanges(out)
    IN  First(IF changes.ok THEN PublishedIds(changes.value) ELSE changes)

\* deploy_contract(): the same value; os.chdir(old_wd) comes right after
\* subprocess.run, before the output is parsed
deploy_contract(out) == [publish_package(out) EXCEPT !.restored = out.ran]

\* main line 190, and the sites main publishes, in its order
SimpleSites == <<"snake", "image", "features">>
AllSites == {"snake", "image", "features", "landing", "blockchat"}

\* What publish_html(package_id, path) comes to, as the runs of
\* publish_big_site end: it returns the id of the create receipt, with all
\* its transactions in effect or with one of them refused (the exit status
\* is not read), or an exception leaves it.
PublishOutcomes ==
    {[returned |-> TRUE, id |-> i, committed |-> c] : i \in ObjectIds, c \in BOOLEAN}
    \cup {[returned |-> FALSE]}

\* The ids the pattern 0x\w+ of update_features_link matches.
HexIds == ObjectIds \cup {"0xOLD"}

\* re.sub('<a href="\/#0x\w+">features page!<\/a>', new_url, html), on the
\* id the landing page's link holds
update_features_link(link, features_id) ==
    IF link \in HexIds THEN features_id ELSE link

\* sw_portal_constants(args, ids): the SITE_NAMES lines, each as the name
\* and the text between its quotes (the comma of the blockchat line stands
\* before the closing quote)
sw_portal_constants(ids) ==
    <<[name |-> "blockchat", text |-> <<ids["blockchat"], ",">>],
      [name |-> "snake", text |-> <<ids["snake"]>>]>>

\* parse_args(): --blocksite-package and --blockchat-package, None by default
Args == [blocksite_package : {None, "0xPKG"}, blockchat_package : {None, "0xCHAT"}]

mainVars == <<site, PIECE_SIZE, pc, site_id, idx, output, old_dir, error, calls,
              ledger, cwd, run, prev, in_flight, sessions, inline, probe>>

InitSetup ==
    /\ AtRest
    /\ cwd = ScriptsDir
    /\ sessions = NoSessions
    /\ inline = NoInline
    /\ probe = NoProbe
    /\ setup \in {[pc |-> "Package", args |-> a, output |-> NoOutput,
                    package_id |-> None, blockchat_package |-> None,
                    chat_id |-> None, next |-> 1, ids |-> <<>>,
                    committed |-> {}, issued |-> <<>>, link |-> "0xOLD",
                    constants |-> <<>>, error |-> None] : a \in Args}

\* lines 181-183: the package given on the command line is used
ReuseBlocksitePackage ==
    /\ setup.pc = "Package"
    /\ setup.args.blocksite_package # None
    /\ setup' = [setup EXCEPT !.package_id = setup.args.blocksite_package,
                              !.pc = "Sites"]
    /\ UNCHANGED mainVars

\* lines 184-185, publish_package lines 38-49: the tool is run
CallPublishPackage ==
    /\ setup.pc = "Package"
    /\ setup.args.blocksite_package = None
    /\ \E out \in PublishOutputs :
         setup' = [setup EXCEPT !.output = out, !.pc = "PublishingPackage"]
    /\ UNCHANGED mainVars

\* publish_package lines 50-55 and the assignment of line 185; an
\* exception ends main
ReturnPublishPackage ==
    /\ setup.pc = "PublishingPackage"
    /\ LET res == publish_package(setup.output)
       IN  setup' = IF res.ok
                    THEN [setup EXCEPT !.package_id = res.value, !.pc = "Sites",
                                       !.output = NoOutput]
                    ELSE [setup EXCEPT !.error = res.error, !.pc = "Aborted",
                                       !.output = NoOutput]
    /\ UNCHANGED mainVars

\* ids[key] = publish_html(...) of lines 192-193, 198-199 and 213-215: the
\* publish is started, and main goes on with the id it returns or is ended
\* by its exception
Published(st, key, r, then) ==
    IF r.returned
    THEN [st EXCEPT !.ids = @ @@ (key :> r.id),
                    !.committed = IF r.committed THEN @ \cup {key} ELSE @,
                    !.issued = Append(@, key),
                    !.pc = then]
    ELSE [st EXCEPT !.issued = Append(@, key), !.error = "publish_html",
                    !.pc = "Aborted"]

\* lines 190-194: one turn of the loop over snake, image, features
PublishSimpleSite ==
    /\ setup.pc = "Sites"
    /\ \E r \in PublishOutcomes :
         LET key == SimpleSites[setup.next]
             st == Published(setup, key, r,
                             IF setup.next = Len(SimpleSites) THEN "Link" ELSE "Sites")
         IN  setup' = [st EXCEPT !.next = @ + 1]
    /\ UNCHANGED mainVars

\* line 196: update_features_link(_index_file(LANDING), ids["features"])
UpdateFeaturesLink ==
    /\ setup.pc = "Link"
    /\ setup' = [setup EXCEPT
                    !.link = update_features_link(@, setup.ids["features"]),
                    !.pc = "Landing"]
    /\ UNCHANGED mainVars

\* lines 197-200
PublishLanding ==
    /\ setup.pc = "Landing"
    /\ \E r \in PublishOutcomes :
         setup' = Published(setup, "landing", r, "ChatPackage")
    /\ UNCHANGED mainVars

\* lines 203-205
ReuseBlockchatPackage ==
    /\ setup.pc = "ChatPackage"
    /\ setup.args.blockchat_package # None
    /\ setup' = [setup EXCEPT !.blockchat_package = setup.args.blockchat_package,
                              !.pc = "CreateChat"]
    /\ UNCHANGED mainVars

\* lines 206-207, publish_package lines 38-49
CallPublishChatPackage ==
    /\ setup.pc = "ChatPackage"
    /\ setup.args.blockchat_package = None
    /\ \E out \in PublishOutputs :
         setup' = [setup EXCEPT !.output = out, !.pc = "PublishingChatPackage"]
    /\ UNCHANGED mainVars

\* publish_package lines 50-55 and the assignment of line 207
ReturnPublishChatPackage ==
    /\ setup.pc = "PublishingChatPackage"
    /\ LET res == publish_package(setup.output)
       IN  setup' = IF res.ok
                    THEN [setup EXCEPT !.blockchat_package = res.value,
                                       !.pc = "CreateChat", !.output = NoOutput]
                    ELSE [setup EXCEPT !.error = res.error, !.pc = "Aborted",
                                       !.output = NoOutput]
    /\ UNCHANGED mainVars

\* lines 209-212: create_chat returns the chat's id or raises; the dapp's
\* constants are rewritten and the dapp is built
CreateChat ==
    /\ setup.pc = "CreateChat"
    /\ \/ setup' = [setup EXCEPT !.chat_id = "0xCHATID", !.pc = "Dapp"]
       \/ setup' = [setup EXCEPT !.error = "create_chat", !.pc = "Aborted"]
    /\ UNCHANGED mainVars

\* lines 213-215
PublishDapp ==
    /\ setup.pc = "Dapp"
    /\ \E r \in PublishOutcomes :
         setup' = Published(setup, "blockchat", r, "Constants")
    /\ UNCHANGED mainVars

\* lines 218-220: the portal constants file is written
WriteConstants ==
    /\ setup.pc = "Constants"
    /\ setup' = [setup EXCEPT !.constants = sw_portal_constants(setup.ids),
                              !.pc = "Done"]
    /\ UNCHANGED mainVars

NextSetup ==
    \/ ReuseBlocksitePackage
    \/ CallPublishPackage
    \/ ReturnPublishPackage
    \/ PublishSimpleSite
    \/ UpdateFeaturesLink
    \/ PublishLanding
    \/ ReuseBlockchatPackage
    \/ CallPublishChatPackage
    \/ ReturnPublishChatPackage
    \/ CreateChat
    \/ PublishDapp
    \/ WriteConstants

SpecSetup == InitSetup /\ [][NextSetup]_vars

\* ------------------------------------- prepare_single_file: inlining
\* A line is the sequence of its characters.  The lines a page may hold,
\* the texts searched for (the last one is in no line, the empty one in
\* every line), the lines put before the inlined text (the second one
\* holds a text searched for, as inline_js's does), the text of the file
\* inlined, and the line put after it.
PageLines == {<<"a">>, <<"b">>, <<"a", "b">>, <<"b", "a">>}
LineMatches == {<<>>, <<"a">>, <<"a", "b">>, <<"c">>}
Befores == {<<"s">>, <<"a", "b", "s">>}
FileTexts == {<<"t">>, <<"a", "t">>}
AfterLine == <<"e">>

\* line_match in line
Contains(line, m) ==
    \E i \in 0 .. Len(line) - Len(m) : SubSeq(line, i + 1, i + Len(m)) = m

\* l.pop(i), for an index the list has: the list it leaves
Pop(l, i) == SubSeq(l, 1, i) \o SubSeq(l, i + 2, Len(l))

\* l.insert(i, x): x comes to stand at index i, or at the end when the
\* list is shorter
Insert(l, i, x) ==
    SubSeq(l, 1, Min(i, Len(l))) \o <<x>> \o SubSeq(l, Min(i, Len(l)) + 1, Len(l))

\* The loop going on after the replacement
NoBreak == FALSE

\* line 61: the break after the three inserts
BreakLoop == TRUE

inlineOthers == <<site, PIECE_SIZE, pc, site_id, idx, output, old_dir, error,
                  calls, ledger, cwd, run, prev, in_flight, sessions, setup, probe>>

\* inline_at_position is entered: contents is the list it was given (input
\* keeps what the list held), idx the index the loop is at.
InitInline ==
    /\ AtRest
    /\ cwd = ScriptsDir
    /\ sessions = NoSessions
    /\ setup = NoSetup
    /\ probe = NoProbe
    /\ inline \in {[pc |-> "Scanning", contents |-> c, input |-> c, idx |-> 0,
                     line_match |-> m, before |-> b, text |-> t] :
                        c \in SeqsUpTo(PageLines, MaxLines), m \in LineMatches,
                        b \in Befores, t \in FileTexts}

\* lines 54-55: the line at idx does not hold line_match, the loop goes on
ScanLine ==
    /\ inline.pc = "Scanning"
    /\ inline.idx < Len(inline.contents)
    /\ ~Contains(inline.contents[inline.idx + 1], inline.line_match)
    /\ inline' = [inline EXCEPT !.idx = @ + 1]
    /\ UNCHANGED inlineOthers

\* lines 55-61: the line holds line_match: pop, the three inserts, break
ReplaceLine ==
    /\ inline.pc = "Scanning"
    /\ inline.idx < Len(inline.contents)
    /\ Contains(inline.contents[inline.idx + 1], inline.line_match)
    /\ LET i == inline.idx
           popped == Pop(inline.contents, i)
           one == Insert(popped, i, inline.before)
           two == Insert(one, i + 1, inline.text)
           three == Insert(two, i + 2, AfterLine)
       IN  inline' = [inline EXCEPT
                        !.contents = three,
                        !.idx = IF BreakLoop THEN i ELSE i + 1,
                        !.pc = IF BreakLoop THEN "Returned" ELSE "Scanning"]
    /\ UNCHANGED inlineOthers

\* line 62, reached when the loop has passed the last line
ReturnContents ==
    /\ inline.pc = "Scanning"
    /\ inline.idx >= Len(inline.contents)
    /\ inline' = [inline EXCEPT !.pc = "Returned"]
    /\ UNCHANGED inlineOthers

NextInline == ScanLine \/ ReplaceLine \/ ReturnContents

SpecInline == InitInline /\ [][NextInline]_vars

\* ------------------------------------- test_max_object_size: the probe
\* The ids create_chat may return.
ChatIds == {"0xCHAT1", "0xCHAT2"}

\* new_message_and_publish(author, text, chat_id, package_id), given what
\* the tool did: json.loads, every entry's objectId, element 0 (the wrapper
\* changes no directory)
new_message_and_publish(out) ==
    LET changes == ObjectChanges(out)
    IN  First(IF changes.ok THEN AllIds(changes.value) ELSE changes)

probeOthers == <<site, PIECE_SIZE, pc, site_id, idx, output, old_dir, error,
                 calls, ledger, cwd, run, prev, in_flight, sessions, setup, inline>>

\* main is entered.  sent lists the messages submitted, each with the chat
\* it names and whether its transaction took effect; printed is the idx of
\* the last "Message {idx} sent" line.
InitProbe ==
    /\ AtRest
    /\ cwd = ScriptsDir
    /\ sessions = NoSessions
    /\ setup = NoSetup
    /\ inline = NoInline
    /\ probe = [pc |-> "Deploy", package_id |-> None, chat_id |-> None, idx |-> 0,
                sent |-> <<>>, printed |-> 0, output |-> NoOutput, error |-> None]

\* lines 94-95: deploy_contract(); an exception ends main
ProbeDeploy ==
    /\ probe.pc = "Deploy"
    /\ \E out \in PublishOutputs :
         LET res == deploy_contract(out)
         IN  probe' = IF res.ok
                      THEN [probe EXCEPT !.package_id = res.value, !.pc = "CreateChat"]
                      ELSE [probe EXCEPT !.error = res.error, !.pc = "Stopped"]
    /\ UNCHANGED probeOthers

\* lines 97-98: create_chat returns the id of the chat or raises
ProbeCreateChat ==
    /\ probe.pc = "CreateChat"
    /\ \/ \E c \in ChatIds : probe' = [probe EXCEPT !.chat_id = c, !.pc = "Loop"]
       \/ probe' = [probe EXCEPT !.error = "create_chat", !.pc = "Stopped"]
    /\ UNCHANGED probeOthers

\* lines 103-105 and new_message_and_publish lines 62-82: idx += 1, the
\* command is built with chat_id and the tool is run
CallNewMessage ==
    /\ probe.pc = "Loop"
    /\ probe.idx < MaxMessages
    /\ \E out \in ToolOutputs :
         probe' = [probe EXCEPT
                     !.idx = @ + 1,
                     !.output = out,
                     !.sent = Append(@, [chat |-> probe.chat_id,
                                         executed |-> Executed(out)]),
                     !.pc = "Sending"]
    /\ UNCHANGED probeOthers

\* new_message_and_publish lines 83-88 and line 106: the output is parsed,
\* the message is counted by the print, and the loop goes round
ReturnNewMessage ==
    /\ probe.pc = "Sending"
    /\ LET res == new_message_and_publish(probe.output)
       IN  probe' = IF res.ok
                    THEN [probe EXCEPT !.printed = probe.idx, !.output = NoOutput,
                                       !.pc = "Loop"]
                    ELSE [probe EXCEPT !.error = res.error, !.output = NoOutput,
                                       !.pc = "Stopped"]
    /\ UNCHANGED probeOthers

NextProbe == ProbeDeploy \/ ProbeCreateChat \/ CallNewMessage \/ ReturnNewMessage

SpecProbe == InitProbe /\ [][NextProbe]_vars

\* One run in which the script keeps running: subprocess.run is a blocking
\* call, and once it has returned the interpreter goes on to the next
\* statement, so a step that is possible is taken.  The run is followed for
\* one site of every length (its bytes alternate), and every piece size.
InitLive == Init /\ site \in {[i \in 1 .. n |-> i % 2] : n \in 0 .. MaxLen}

SpecLive == InitLive /\ [][Next]_vars /\ WF_vars(Next)

\* ------------------------------------------------------------------- claims
\* The bytes a submitted command carries: its contents argument, read back.
Payload(c) ==
    ParseArg(IF c.cmd.function = "create_to_sender" THEN c.cmd.args[1]
             ELSE c.cmd.args[2])

RECURSIVE Concat(_)
Concat(cs) == IF cs = <<>> THEN <<>> ELSE Payload(Head(cs)) \o Concat(Tail(cs))

\* Call number i of the run is the create call for i = 1, an add_piece call
\* after it, and carries piece i - 1.
CarriesPiece(i) ==
    /\ calls[i].cmd.function = (IF i = 1 THEN "create_to_sender" ELSE "add_piece")
    /\ calls[i].piece = i - 1
    /\ Payload(calls[i]) = Piece(i - 1)

\* The lengths of the slices publish_big_site submits for a site of len bytes.
RECURSIVE LoopLengths(_, _, _)
LoopLengths(len, size, i) ==
    IF LoopContinues(i, len)
    THEN <<Min(size, len - i)>> \o LoopLengths(len, size, i + size)
    ELSE <<>>

PublishLengths(len, size) == <<Min(size, len)>> \o LoopLengths(len, size, size)

\* C1: the payloads submitted so far, in submission order, concatenate to
\* the first bytes of the site, nothing lost, repeated or out of place, and
\* to the whole site once publish_big_site has returned.
C1_PayloadsReproduceSite ==
    /\ Concat(calls) = SubSeq(site, 1, Min(Len(calls) * PIECE_SIZE, Len(site)))
    /\ pc = "Complete" => Concat(calls) = site

C1_Witness ==
    /\ pc = "Complete"
    /\ Len(calls) >= 2
    /\ Len(site) % PIECE_SIZE # 0
    /\ \E i, j \in DOMAIN site : site[i] # site[j]

\* C2: in a run where every transaction took effect and none was refused,
\* call 1 is the create call with piece 0, call i > 1 is an add_piece call
\* with piece i - 1, nothing is submitted past the last piece, and the run
\* is Complete exactly when cursor = piece_count, after piece_count calls;
\* the slices have the lengths of the scenario (25,000 bytes in slices of
\* 10,000: 10000, 10000, 5000).
C2_EverySuccessInOrder ==
    /\ PublishLengths(25000, 10000) = <<10000, 10000, 5000>>
    /\ (pc # "Failed" /\ \A i \in DOMAIN calls : calls[i].executed) =>
         /\ \A i \in DOMAIN calls : CarriesPiece(i)
         /\ Len(calls) <= piece_count
         /\ pc \in {"Appending", "Complete"} => cursor = Len(calls)
         /\ pc = "Complete" <=> cursor = piece_count
         /\ pc = "Complete" =>
              [i \in DOMAIN calls |-> Len(Payload(calls[i]))]
                 = PublishLengths(Len(site), PIECE_SIZE)

C2_Witness ==
    /\ pc = "Complete"
    /\ \A i \in DOMAIN calls : calls[i].executed
    /\ Len(calls) = 3
    /\ cursor = 3
    /\ piece_count = 3

\* C3: once site_id is assigned it keeps its value in every later step of
\* the run, every add_piece command names it as its target, and the id an
\* add_piece call returns does not replace it.
C3_TargetNeverChanges ==
    [][/\ site_id # None /\ run' = run => site_id' = site_id
       /\ \A i \in DOMAIN calls' :
            calls'[i].cmd.function = "add_piece" => calls'[i].cmd.args[1] = site_id']_vars

\* a second add_piece call is about to return an id other than site_id
C3_Witness ==
    /\ pc = "Adding"
    /\ Len(calls) = 3
    /\ add_piece(output).ok
    /\ add_piece(output).value # site_id

NoMatchingEntry(out) ==
    /\ out.ran
    /\ "objectChanges" \in DOMAIN out.stdout
    /\ \A i \in DOMAIN out.stdout.objectChanges :
          LET x == out.stdout.objectChanges[i]
          IN  "objectType" \in DOMAIN x =>
                 ~StartsWith(x.objectType, BlockSitePrefix(package_id))

AllTyped(out) ==
    \A i \in DOMAIN out.stdout.objectChanges :
        "objectType" \in DOMAIN out.stdout.objectChanges[i]

\* C5: when the create receipt lists no entry of the BlockSite type,
\* create_blocksite raises (IndexError from output[0] when every entry has
\* its objectType), site_id stays unbound, cursor stays 0, and no add_piece
\* call is ever issued while site_id is unbound.
C5_NoMatchingEntryFails ==
    /\ [][(pc = "Creating" /\ NoMatchingEntry(output)) =>
             /\ pc' = "Failed"
             /\ error' \in {"IndexError", "KeyError"}
             /\ AllTyped(output) => error' = "IndexError"
             /\ site_id' = None
             /\ cursor' = 0
             /\ calls' = calls]_vars
    /\ [](site_id = None =>
             \A i \in DOMAIN calls : calls[i].cmd.function # "add_piece")

\* create_blocksite ended by IndexError: the receipt was read and held no match
C5_Witness ==
    /\ pc = "Failed"
    /\ error = "IndexError"
    /\ site_id = None
    /\ cursor = 0
    /\ Len(calls) = 1

\* The states between two transactions of a run, and after its last one.
AtPieceBoundary == pc \in {"Appending", "Complete", "Failed"}

\* C6: at every piece boundary with a target bound, the ledger holds for
\* the target exactly the pieces below the cursor.
C6_CommittedIsPiecesBelowCursor ==
    (AtPieceBoundary /\ site_id # None) =>
        /\ site_id \in DOMAIN ledger
        /\ ledger[site_id] = SubSeq(site, 1, Min(cursor * PIECE_SIZE, Len(site)))

\* C7: no piece index is submitted twice in a run, and no call is submitted
\* after a call of the run whose transaction failed.
C7_NoRetryFailureStops ==
    /\ \A i, j \in DOMAIN calls : i # j => calls[i].piece # calls[j].piece
    /\ \A i \in 1 .. Len(calls) - 1 : calls[i].executed

\* C8: a tool call that could not run or exited with a non-zero status makes
\* the wrapper fail: the run is Failed and no target is taken from it.
C8_FailedToolCallFails ==
    [][(pc \in {"Creating", "Adding"} /\ ~Executed(output)) =>
          /\ pc' = "Failed"
          /\ site_id' = site_id]_vars

\* The exceptions the wrappers raise on an output they cannot read.
ParseErrors == {"JSONDecodeError", "TypeError", "KeyError", "IndexError"}

Lacks(out, field) ==
    \E i \in DOMAIN out.stdout.objectChanges :
        field \notin DOMAIN out.stdout.objectChanges[i]

\* An output that is no receipt at all.
NotAReceipt(out) ==
    \/ out.stdout.kind \in {"not_json", "json_array"}
    \/ "objectChanges" \notin DOMAIN out.stdout

\* C9 as claimed: output that is not valid JSON, has no objectChanges, has
\* an empty objectChanges on append, or has an entry without objectId or
\* objectType, makes the call fail.
C9_UnexpectedShapeFails ==
    [][(/\ pc \in {"Creating", "Adding"}
        /\ output.ran
        /\ \/ NotAReceipt(output)
           \/ pc = "Adding" /\ output.stdout.objectChanges = <<>>
           \/ Lacks(output, "objectId")
           \/ Lacks(output, "objectType")) =>
          pc' = "Failed" /\ error' \in ParseErrors]_vars

\* an entry of the BlockSite type that has no objectId
MatchLacksId(out) ==
    \E i \in DOMAIN out.stdout.objectChanges :
        LET x == out.stdout.objectChanges[i]
        IN  /\ "objectType" \in DOMAIN x
            /\ StartsWith(x.objectType, BlockSitePrefix(package_id))
            /\ "objectId" \notin DOMAIN x

\* C9, amended: output that is not valid JSON or has no objectChanges, or
\* that lacks what the wrapper reads (on append: any entry, or the objectId
\* of an entry; on create: the objectType of an entry, or the objectId of an
\* entry of the BlockSite type), makes the call fail with one of the parse
\* exceptions, leaving site_id and the cursor as they were.
C9_UnreadableOutputFails ==
    [][(/\ pc \in {"Creating", "Adding"}
        /\ output.ran
        /\ \/ NotAReceipt(output)
           \/ /\ pc = "Adding"
              /\ \/ output.stdout.objectChanges = <<>>
                 \/ Lacks(output, "objectId")
           \/ /\ pc = "Creating"
              /\ \/ Lacks(output, "objectType")
                 \/ MatchLacksId(output)) =>
          /\ pc' = "Failed"
          /\ error' \in ParseErrors
          /\ site_id' = site_id
          /\ cursor' = cursor]_vars

\* an add_piece call whose transaction took effect but whose output was not
\* JSON has ended the run
C9_Witness ==
    /\ pc = "Failed"
    /\ error = "JSONDecodeError"
    /\ Len(calls) >= 2
    /\ calls[Len(calls)].executed

\* C10: the cursor never decreases, it moves by one and only when the
\* transaction that just returned succeeded, and site_id is set once, from
\* unbound, when the create transaction succeeded.
C10_CursorAndTargetFollowSuccess ==
    [][/\ cursor' >= cursor
       /\ cursor' # cursor =>
            /\ cursor' = cursor + 1
            /\ calls[Len(calls)].executed
       /\ site_id' # site_id =>
            /\ site_id = None
            /\ pc = "Creating"
            /\ cursor' = 1
            /\ calls[1].executed]_vars

\* publish_big_site has ended, by its return or by an exception.
Terminated == pc \in {"Complete", "Failed"}

C12_PieceCountAndLengths ==
    LET L == Len(site)
        S == PIECE_SIZE
        ceil == (L + S - 1) \div S
        n == Len(calls)
    IN  /\ PublishLengths(30001, 15000) = <<15000, 15000, 1>>
        /\ PublishLengths(30000, 15000) = <<15000, 15000>>
        /\ \A i \in DOMAIN calls : Len(Payload(calls[i])) <= S
        /\ L > 0 => n <= ceil
        /\ (pc = "Complete" /\ L > 0) =>
              /\ n = ceil
              /\ \A i \in 1 .. n - 1 : Len(Payload(calls[i])) = S
              /\ Len(Payload(calls[n])) = L - (n - 1) * S

\* three bytes published in slices of two: the last slice is one byte
C12_Witness ==
    /\ pc = "Complete"
    /\ Len(site) = 3
    /\ PIECE_SIZE = 2
    /\ Len(calls) = 2
    /\ Len(Payload(calls[2])) = 1

\* C13: for the empty site the run submits one call and no more: the create
\* call, whose contents argument is "[]", and it never enters the loop.
C13_EmptySiteOneCreate ==
    site = <<>> =>
        /\ Len(calls) <= 1
        /\ pc \notin {"Appending", "Adding"}
        /\ pc # "NotStarted" => Len(calls) = 1
        /\ \A i \in DOMAIN calls :
              /\ calls[i].cmd.function = "create_to_sender"
              /\ calls[i].cmd.args[1] = <<"[", "]">>
              /\ Payload(calls[i]) = <<>>

\* the publish of the empty site has returned
C13_Witness ==
    /\ site = <<>>
    /\ pc = "Complete"
    /\ Len(calls) = 1
    /\ calls[1].executed

\* C14: at no point are two transactions of the run in flight, and a call is
\* submitted only when no transaction is in flight and the call before it
\* has returned and was dealt with (the wrapper is left, its output parsed).
C14_OneTransactionAtATime ==
    /\ [](Cardinality(in_flight) <= 1)
    /\ [][calls' # calls /\ run' = run =>
            /\ Len(calls') = Len(calls) + 1
            /\ in_flight = {}
            /\ output = NoOutput
            /\ pc \in {"NotStarted", "Appending"}
            /\ cursor = Len(calls)]_vars

\* the third transaction was submitted, after the second one had ended
C14_Witness ==
    /\ pc = "Adding"
    /\ Len(calls) = 3
    /\ in_flight = {}

\* C15: two publishes whose calls interleave in one process do not touch
\* each other: each call starts from the directory the process had before
\* the publishes began, no call is stopped by a directory the other one
\* left, every tool process runs in the contract directory, and when both
\* have ended the working directory is what it was before.
C15_SessionsShareNoContext ==
    /\ \A s \in Sessions :
          /\ sessions[s].old_dir \in {NoDir, ScriptsDir}
          /\ sessions[s].ran_in \in {NoDir, Chdir(ScriptsDir, BLOCKSITE_CONTRACT)}
    /\ (\A s \in Sessions : sessions[s].pc \in {"Done", "Stopped"}) => cwd = ScriptsDir

MatchPositions(changes) ==
    {i \in DOMAIN changes :
        /\ "objectType" \in DOMAIN changes[i]
        /\ StartsWith(changes[i].objectType, BlockSitePrefix(package_id))}

\* C17: whenever the create call returns, the id bound as site_id is the
\* objectId of the first entry, in list order, whose objectType starts with
\* "<package_id>::blocksite::BlockSite", whatever stands before or after it.
C17_TargetIsFirstMatch ==
    [][(pc = "Creating" /\ pc' # "Failed") =>
          LET changes == output.stdout.objectChanges
              first == CHOOSE i \in MatchPositions(changes) :
                           \A j \in MatchPositions(changes) : i <= j
          IN  /\ MatchPositions(changes) # {}
              /\ site_id' = changes[first].objectId]_vars

\* the create call is about to return the second entry's id: the first
\* entry is the gas coin
C17_Witness ==
    /\ pc = "Creating"
    /\ create_blocksite(package_id, output).ok
    /\ MatchPositions(output.stdout.objectChanges) = {2}
    /\ "objectId" \in DOMAIN output.stdout.objectChanges[1]

\* The positions of a receipt's entries whose type is "published".
PublishedPositions(changes) ==
    {i \in DOMAIN changes : changes[i].type = "published"}

\* The name main gives to what the publish-package call in progress returns.
PackageField == IF setup.pc = "PublishingPackage" THEN "package_id"
                ELSE "blockchat_package"

\* C18: for a receipt the tool printed, publish_package returns the
\* packageId of the first entry whose type is "published", whatever entries
\* of other types stand before or after it, and raises (IndexError, main is
\* ended, no package id is taken) when the receipt holds no such entry;
\* deploy_contract returns the same.
C18_PackageIsFirstPublished ==
    [][(/\ setup.pc \in {"PublishingPackage", "PublishingChatPackage"}
        /\ ObjectChanges(setup.output).ok) =>
          LET changes == setup.output.stdout.objectChanges
              pub == PublishedPositions(changes)
              first == CHOOSE i \in pub : \A j \in pub : i <= j
          IN  /\ pub = {} =>
                    /\ setup'.pc = "Aborted"
                    /\ setup'.error = "IndexError"
                    /\ setup'[PackageField] = None
                    /\ ~deploy_contract(setup.output).ok
              /\ pub # {} =>
                    /\ setup'.pc # "Aborted"
                    /\ setup'[PackageField] = changes[first].packageId
                    /\ deploy_contract(setup.output).value = changes[first].packageId]_vars

\* publish_package is about to return the packageId of the second entry:
\* the first entry is of another type
C18_Witness ==
    /\ setup.pc = "PublishingPackage"
    /\ publish_package(setup.output).ok
    /\ PublishedPositions(setup.output.stdout.objectChanges) = {2}
    /\ publish_package(setup.output).value = "0xPKG2"

\* C19: outside the wrappers the working directory is the one the run
\* started in: each call of create_blocksite and add_piece, returning or
\* raising, leaves it as it found it.
C19_WrappersRestoreCwd ==
    pc \notin {"Creating", "Adding"} => cwd = ScriptsDir

\* The sites whose publish was started in the run of main.
Issued == {setup.issued[i] : i \in DOMAIN setup.issued}

\* C20: in main, the landing site's publish is started only when the
\* features site is published, all its transactions in effect, and its id
\* stands in the landing page's link; the constants file is written only
\* when all five sites are published, all their transactions in effect; and
\* it is not written when a publish has failed.
C20_SetupOrder ==
    /\ "landing" \in Issued =>
          /\ "features" \in setup.committed
          /\ setup.link = setup.ids["features"]
    /\ setup.constants # <<>> => setup.committed = AllSites
    /\ (setup.error # None \/ Issued \ setup.committed # {}) => setup.constants = <<>>

\* The indexes (from 1) of the lines of the page given that hold line_match.
MatchingLines == {i \in DOMAIN inline.input : Contains(inline.input[i], inline.line_match)}

\* C21: while it scans, inline_at_position leaves the list as given; what
\* it returns is the list given when no line holds line_match, and else the
\* list given with its first line holding line_match replaced by before,
\* the inlined text and after: the lines before and behind it are the same,
\* in the same order, and the list is two entries longer.
C21_FirstMatchReplaced ==
    /\ inline.pc = "Scanning" => inline.contents = inline.input
    /\ inline.pc = "Returned" =>
          IF MatchingLines = {} THEN inline.contents = inline.input
          ELSE LET k == CHOOSE i \in MatchingLines : \A j \in MatchingLines : i <= j
                   n == Len(inline.input)
               IN  /\ Len(inline.contents) = n + 2
                   /\ SubSeq(inline.contents, 1, k - 1) = SubSeq(inline.input, 1, k - 1)
                   /\ SubSeq(inline.contents, k, k + 2)
                         = <<inline.before, inline.text, AfterLine>>
                   /\ SubSeq(inline.contents, k + 3, n + 2) = SubSeq(inline.input, k + 1, n)

\* the second of three lines was replaced, a later line holds line_match
\* too, and so does the line put before the text
C21_Witness ==
    /\ inline.pc = "Returned"
    /\ MatchingLines = {2, 3}
    /\ Len(inline.contents) = 5
    /\ Contains(inline.before, inline.line_match)

\* The messages of the probe whose transaction took effect.
Delivered == {i \in DOMAIN probe.sent : probe.sent[i].executed}

\* C22: every message of the probe names the chat created at its start;
\* each time the loop comes round, the count printed is the number of
\* messages whose transaction took effect; and no message is sent after a
\* call whose transaction failed: the probe stops there.
C22_ProbeStopsAtFirstFailure ==
    /\ \A i \in DOMAIN probe.sent : probe.sent[i].chat = probe.chat_id
    /\ probe.pc = "Loop" => probe.printed = Cardinality(Delivered)
    /\ probe.pc = "Loop" => Delivered = DOMAIN probe.sent
    /\ \A i \in 1 .. Len(probe.sent) - 1 : probe.sent[i].executed

=============================================================================
